---- MODULE Spec2Model ----
(***************************************************************************)
(* The item-search backend: the polling thread that ingests the catalog    *)
(* and the price snapshot (polling_service.py), the store it writes        *)
(* (models.py), the on-demand creation handlers and the hybrid search      *)
(* ranking (main.py).                                                      *)
(*                                                                         *)
(* Representation.  An optional number or vector column is None (<<>>) or  *)
(* Some(x) (<<x>>); an optional text column is NoneStr or a string.  The   *)
(* embedding provider is an opaque injective function of the text, so a    *)
(* vector is represented by the text it was computed from.  Identities of  *)
(* priced items are positive; an id of 0 is an entry whose id is missing.  *)
(***************************************************************************)
EXTENDS Integers, Sequences, FiniteSets, TLC

\* ------------------------------------------------------------------ bounds
MaxCycles == 2        \* update cycles the polling thread starts
MaxRequests == 1      \* creation requests served
BatchSize == 1        \* scaled stand-in for batch_size = 500 (polling_service.py:174)
MaxLimit == 2         \* largest result limit a search request asks for
MaxTableCommits == 1  \* commits to game_items between the statements of a search
MaxCalls == 2         \* get_embedding_service calls of each thread

\* --------------------------------------------------------------- constants
CandidateFactor == 3      \* vector candidates fetched per requested result
CandidateCeiling == 100   \* ceiling of the vector candidate limit
KeywordLimit == 50        \* LIMIT of the keyword candidate query

\* ------------------------------------------------------------------ values
None == <<>>
Some(x) == <<x>>
NoneStr == "<None>"
Truthy(s) == s # NoneStr /\ s # ""

ItemIds == {1234, 1235}

\* The threads that call get_embedding_service: the polling thread and the
\* event-loop thread that runs the request handlers.
Callers == {"polling", "handlers"}

\* Entries of the mapping response (also used as ItemCreate bodies).
E1a == [id |-> 1234, name |-> "Dragon longsword", examine |-> NoneStr,
        members |-> FALSE, value |-> 1]
E1b == [id |-> 1234, name |-> "Dragon sword", examine |-> NoneStr,
        members |-> FALSE, value |-> 1]
E1m == [id |-> 1234, name |-> "Dragon longsword", examine |-> NoneStr,
        members |-> TRUE, value |-> 2]
E2 == [id |-> 1235, name |-> "Abyssal whip", examine |-> "A weapon from the abyss.",
       members |-> TRUE, value |-> 1]
E0 == [id |-> 0, name |-> "", examine |-> NoneStr, members |-> FALSE, value |-> 1]

HL == [high |-> Some(100000), low |-> Some(95000)]
HN == [high |-> Some(45000), low |-> None]
NL == [high |-> None, low |-> Some(43000)]
NN == [high |-> None, low |-> None]

\* What the two upstream requests can answer: a transport or decode failure
\* (ok = FALSE) or a body.
MappingResponses ==
    << [ok |-> FALSE, body |-> <<>>],
       [ok |-> TRUE, body |-> <<>>],
       [ok |-> TRUE, body |-> <<E1a>>],
       [ok |-> TRUE, body |-> <<E1a, E2>>],
       [ok |-> TRUE, body |-> <<E1b, E2>>],
       [ok |-> TRUE, body |-> <<E1a, E1b>>],
       [ok |-> TRUE, body |-> <<E0, E1m>>] >>

PriceResponses ==
    << [ok |-> FALSE, body |-> <<>>],
       [ok |-> TRUE, body |-> <<>>],
       [ok |-> TRUE, body |-> (1234 :> HL)],
       [ok |-> TRUE, body |-> (1234 :> HL) @@ (1235 :> HN)],
       [ok |-> TRUE, body |-> (1234 :> NN) @@ (1235 :> NL)] >>

\* Bodies of POST /api/items and POST /api/items/batch.
ItemCreates == {E1a, E2}
BatchItemCreates == { <<E1a, E2>>, <<E2, E2>> }

\* Text the search handler inspects is a sequence of characters.
DragonLongsword == <<"D", "r", "a", "g", "o", "n", " ", "l", "o", "n", "g", "s", "w", "o", "r", "d">>
DragonDagger == <<"D", "r", "a", "g", "o", "n", " ", "d", "a", "g", "g", "e", "r">>
Longbow == <<"L", "o", "n", "g", "b", "o", "w">>
AbyssalWhip == <<"A", "b", "y", "s", "s", "a", "l", " ", "w", "h", "i", "p">>
DragonSword == <<"D", "r", "a", "g", "o", "n", " ", "s", "w", "o", "r", "d">>

\* The game_items rows a search reads: name, membership, whether the row has
\* a vector, and the cosine similarity (in percent) of that vector to the
\* query vector.  SearchNames are the names at the start of the request,
\* RenamedTo what a concurrent update renames a row to.
SearchIds == 1..4
SearchNames == <<DragonLongsword, DragonDagger, Longbow, AbyssalWhip>>
SearchMembers == <<TRUE, TRUE, FALSE, TRUE>>
RenamedTo == <<DragonSword, DragonLongsword, DragonDagger, Longbow>>
SimValues == {40, 80}
\* Cosine similarities in percent of the stored vectors to the query vector.
SimVectors ==
    [SearchIds -> SimValues] \cup {[id \in SearchIds |-> IF id = 1 THEN 0 - 10 ELSE 40]}

Queries == { <<"d", "r", "a", "g", "o", "n", " ", "l", "o", "n", "g">>,
             <<"D", "r", "a", "g", "o", "n">>,
             <<"l", "o", "n", "g", " ", "d", "r", "a", "g", "o", "n">>,
             <<"a", " ", "b">> }

\* Names and similarities (in percent, the ends of [0, 1] included) of the
\* rows the scoring is checked on, and the queries put to them.
Dragon == <<"D", "r", "a", "g", "o", "n">>
ScoreNames == {DragonLongsword, Longbow, AbyssalWhip, Dragon}
ScoreSims == {0, 50, 100}
ScoreQueries == Queries \cup { <<"d", "r", "a", "g", "o", "n", " ", "d", "r", "a", "g", "o", "n">> }

\* The index of the "dragon long" scenario: "Dragon longsword" and items whose
\* names share no token with the query, none more similar to the query than
\* "Dragon longsword"; a cosine similarity can be negative.
Coal == <<"C", "o", "a", "l">>
Bones == <<"B", "o", "n", "e", "s">>
ScenarioNames == <<DragonLongsword, AbyssalWhip, Coal, Bones>>
ScenarioQuery == <<"d", "r", "a", "g", "o", "n", " ", "l", "o", "n", "g">>
ScenarioSims ==
    {sim \in [DOMAIN ScenarioNames -> {0 - 10, 40, 80}] :
        \A id \in DOMAIN ScenarioNames : sim[id] <= sim[1]}

\* Queries put to format_query_for_embedding: optional white space, an
\* optional prefix in some case, optional white space, a text, optional
\* white space.
QueryPrefixes ==
    { <<>>,
      <<"D", "e", "s", "c", "r", "i", "p", "t", "i", "o", "n", ":">>,
      <<"D", "E", "S", "C", "R", "I", "P", "T", "I", "O", "N", ":">>,
      <<"I", "t", "e", "m", " ", "N", "a", "m", "e", ":">>,
      <<"i", "t", "e", "m", " ", "n", "a", "m", "e", ":">>,
      <<"D", "e", "s", "c", "r", "i", "p", "t", "i", "o", "n">>,
      <<"I", "t", "e", "m", " ", "N", "a", "m", "e", " ", ":">> }
QueryTexts == { <<>>, <<"a", " ", "s", "w", "o", "r", "d">>, <<"I", "t", "e", "m", " ", "N", "a", "m", "e", ":", " ", "x">> }
QueryPadding == { <<>>, <<" ">>, <<"\t", " ">> }
FormatQueries ==
    {lead \o prefix \o gap \o body \o trail :
        lead \in {<<>>, <<" ">>}, prefix \in QueryPrefixes, gap \in QueryPadding,
        body \in QueryTexts, trail \in {<<>>, <<" ">>}}

VARIABLES
    pc,                 \* position of the polling thread
    initial,            \* TRUE while the running update is the initial one
    cycles,             \* updates started so far
    waited,             \* 60 s sleeps finished since the last update ended
    outcome,            \* how the last update ended
    cur_resp,           \* the responses the running update fetched (indices)
    last_ok,            \* the responses of the last update if it committed
    items_to_process,   \* first-pass result
    item_indices_for_embedding,
    batch_start,        \* texts already handed to the provider
    embed_calls,        \* embed_texts calls of the running update
    embed_failed,       \* TRUE when a batch of the running or last update failed
    loaded,             \* Item objects the update's session has loaded
    items,              \* committed game_items rows, by item_id
    prices,             \* committed price_history rows, in insertion order
    req,                \* the creation request in flight
    requests,           \* creation requests started so far
    resp,               \* the response to the last request
    provider_calls,     \* provider calls made by the last request
    spc,                \* position of the search request
    search_query,       \* its SearchQuery: query, limit, members_only
    table,              \* the game_items rows the search statements read
    table_commits,      \* commits to game_items since the request began
    vector_rows,        \* result of the vector statement
    keyword_rows,       \* result of the keyword statement
    all_rows,           \* merged candidates
    search_response,    \* the SearchResponse, or the error status
    formatted_query,    \* the text the query embedding is computed from
    embedding_service,  \* the module global _embedding_service: 0 is None
    instances,          \* EmbeddingService instances constructed so far
    gpc,                \* each thread's position in get_embedding_service
    built,              \* the instance each thread has constructed
    calls,              \* get_embedding_service calls each thread has made
    handed_out          \* the instances returned to callers so far

pollVars == <<pc, initial, cycles, waited, outcome, cur_resp, last_ok,
              items_to_process, item_indices_for_embedding, batch_start,
              embed_calls, embed_failed, loaded>>
storeVars == <<items, prices>>
reqVars == <<req, requests, resp, provider_calls>>
searchVars == <<spc, search_query, table, table_commits, vector_rows, keyword_rows,
                all_rows, search_response, formatted_query>>
providerVars == <<embedding_service, instances, gpc, built, calls, handed_out>>
vars == <<pollVars, storeVars, reqVars, searchVars, providerVars>>

\* ------------------------------------------------------------------ helpers
Min(a, b) == IF a < b THEN a ELSE b

Perms(S) ==
    {f \in [1..Cardinality(S) -> S] : \A i, j \in DOMAIN f : i # j => f[i] # f[j]}

FirstRows(rows, n) == SubSeq(rows, 1, Min(n, Len(rows)))

\* ------------------------------------------------------------ embeddings.py
create_searchable_text(item_data) ==
    (IF Truthy(item_data.name) THEN << <<"Item Name: ", item_data.name>> >> ELSE <<>>)
    \o (IF Truthy(item_data.examine) THEN << <<"Description: ", item_data.examine>> >> ELSE <<>>)
    \o (IF item_data.members THEN << <<"Members only item">> >> ELSE <<>>)

embed_text(text) == Some(text)

\* Python strings as sequences of characters.
UpperCase == <<"A", "B", "C", "D", "E", "F", "G", "H", "I", "J", "K", "L", "M",
               "N", "O", "P", "Q", "R", "S", "T", "U", "V", "W", "X", "Y", "Z">>
LowerCase == <<"a", "b", "c", "d", "e", "f", "g", "h", "i", "j", "k", "l", "m",
               "n", "o", "p", "q", "r", "s", "t", "u", "v", "w", "x", "y", "z">>
ToLower ==
    [c \in {UpperCase[i] : i \in DOMAIN UpperCase} |->
        LowerCase[CHOOSE i \in DOMAIN UpperCase : UpperCase[i] = c]]
LowerChar(c) == IF c \in DOMAIN ToLower THEN ToLower[c] ELSE c
lower(s) == [i \in DOMAIN s |-> LowerChar(s[i])]

Whitespace == {" ", "\t", "\n"}

\* str.strip(): without the leading and the trailing white space.
strip(s) ==
    LET inked == {k \in DOMAIN s : s[k] \notin Whitespace}
    IN IF inked = {} THEN <<>>
       ELSE SubSeq(s, CHOOSE k \in inked : \A j \in inked : k <= j,
                      CHOOSE k \in inked : \A j \in inked : k >= j)

startswith(s, prefix) ==
    Len(s) >= Len(prefix) /\ SubSeq(s, 1, Len(prefix)) = prefix

\* s[n:]
SliceFrom(s, n) == SubSeq(s, n + 1, Len(s))

DescriptionPrefix == <<"d", "e", "s", "c", "r", "i", "p", "t", "i", "o", "n", ":">>
ItemNamePrefix == <<"i", "t", "e", "m", " ", "n", "a", "m", "e", ":">>
DescriptionForm == <<"D", "e", "s", "c", "r", "i", "p", "t", "i", "o", "n", ":", " ">>
ItemNameForm == <<"I", "t", "e", "m", " ", "N", "a", "m", "e", ":", " ">>

\* Variant: every query is wrapped as a name search.
format_query_as_name(query) == ItemNameForm \o strip(query)

format_query_for_embedding(query) ==
    LET cleaned_query == strip(query)
    IN IF startswith(lower(cleaned_query), DescriptionPrefix)
       THEN LET description_text == strip(SliceFrom(cleaned_query, 12))
            IN IF description_text # <<>>
               THEN DescriptionForm \o description_text
               ELSE ItemNameForm
       ELSE IF startswith(lower(cleaned_query), ItemNamePrefix)
       THEN LET name_text == strip(SliceFrom(cleaned_query, 10))
            IN IF name_text # <<>>
               THEN ItemNameForm \o name_text
               ELSE ItemNameForm
       ELSE ItemNameForm \o cleaned_query

\* ------------------------------------------------------- polling_service.py
fetch_item_mapping(response) ==
    IF response.ok THEN response.body ELSE <<>>

\* Variant: the price snapshot without the filter on empty observations.
fetch_latest_prices_unfiltered(response) ==
    IF response.ok
    THEN [id \in DOMAIN response.body |->
            [high |-> response.body[id].high, low |-> response.body[id].low]]
    ELSE <<>>

fetch_latest_prices(response) ==
    IF response.ok
    THEN LET data == response.body
             kept == {id \in DOMAIN data : data[id].high # None \/ data[id].low # None}
         IN [id \in kept |-> [high |-> data[id].high, low |-> data[id].low]]
    ELSE <<>>

\* Variant: the early return looks at the catalog only.
SkipsOnEmptyCatalogOnly(mapping_data, prices_data) ==
    mapping_data = <<>>

SkipsUpdate(mapping_data, prices_data) ==
    mapping_data = <<>> \/ DOMAIN prices_data = {}

NeedsEmbedding(existing_item, item_dict) ==
    \/ existing_item = None
    \/ existing_item[1].name # item_dict.name
    \/ existing_item[1].examine # item_dict.examine

RECURSIVE FirstPass(_, _, _, _, _)
FirstPass(mapping_data, prices_data, db_items, i, acc) ==
    IF i > Len(mapping_data) THEN acc
    ELSE
      LET item_data == mapping_data[i]
          item_id == item_data.id
      IN IF item_id = 0 THEN FirstPass(mapping_data, prices_data, db_items, i + 1, acc)
         ELSE IF item_id \notin DOMAIN prices_data
         THEN FirstPass(mapping_data, prices_data, db_items, i + 1, acc)
         ELSE IF prices_data[item_id].high = None /\ prices_data[item_id].low = None
         THEN FirstPass(mapping_data, prices_data, db_items, i + 1, acc)
         ELSE
           LET existing_item == IF item_id \in DOMAIN db_items
                                THEN Some(db_items[item_id]) ELSE None
               item_dict == [item_id |-> item_id,
                             name |-> item_data.name,
                             examine |-> item_data.examine,
                             members |-> item_data.members,
                             value |-> item_data.value,
                             existing_item |-> existing_item # None,
                             price_info |-> prices_data[item_id],
                             has_embedding |-> FALSE,
                             embedding |-> None]
               idx == Len(acc.items_to_process) + 1
           IN FirstPass(mapping_data, prices_data, db_items, i + 1,
                  [items_to_process |-> Append(acc.items_to_process, item_dict),
                   item_indices_for_embedding |->
                       IF NeedsEmbedding(existing_item, item_dict)
                       THEN Append(acc.item_indices_for_embedding, idx)
                       ELSE acc.item_indices_for_embedding])

\* Variant: a provider error takes the vector from every entry that needs one.
AssignBatchFailAll(to_process, indices, start, ok) ==
    LET batch_end == IF start + BatchSize < Len(indices)
                     THEN start + BatchSize ELSE Len(indices)
        batch == IF ok THEN {indices[k] : k \in (start + 1)..batch_end}
                 ELSE {indices[k] : k \in DOMAIN indices}
    IN [idx \in DOMAIN to_process |->
          IF idx \in batch
          THEN [to_process[idx] EXCEPT
                  !.has_embedding = TRUE,
                  !.embedding = IF ok
                                THEN embed_text(create_searchable_text(to_process[idx]))
                                ELSE None]
          ELSE to_process[idx]]

\* The outcome of one embed_texts call on the batch starting after `start`.
AssignBatch(to_process, indices, start, ok) ==
    LET batch_end == IF start + BatchSize < Len(indices)
                     THEN start + BatchSize ELSE Len(indices)
        batch == {indices[k] : k \in (start + 1)..batch_end}
    IN [idx \in DOMAIN to_process |->
          IF idx \in batch
          THEN [to_process[idx] EXCEPT
                  !.has_embedding = TRUE,
                  !.embedding = IF ok
                                THEN embed_text(create_searchable_text(to_process[idx]))
                                ELSE None]
          ELSE to_process[idx]]

PriceEntry(item_dict, now) ==
    [item_id |-> item_dict.item_id,
     high_price |-> item_dict.price_info.high,
     low_price |-> item_dict.price_info.low,
     timestamp |-> now]

\* Variant: a new Item is built without its vector.
ItemRowWithoutEmbedding(item_dict) ==
    [name |-> item_dict.name, examine |-> item_dict.examine,
     members |-> item_dict.members, value |-> item_dict.value,
     embedding |-> None]

ItemRow(item_dict) ==
    [name |-> item_dict.name, examine |-> item_dict.examine,
     members |-> item_dict.members, value |-> item_dict.value,
     embedding |-> IF item_dict.has_embedding THEN item_dict.embedding ELSE None]

UpdateExisting(obj, item_dict) ==
    [name |-> item_dict.name, examine |-> item_dict.examine,
     members |-> item_dict.members, value |-> item_dict.value,
     embedding |-> IF item_dict.has_embedding THEN item_dict.embedding
                   ELSE obj.embedding]

\* Variant: an entry without a stored Item adds no Item to the session.
UpdateOnly(sess, item_dict) ==
    IF item_dict.existing_item
    THEN [sess EXCEPT !.objs[item_dict.item_id] =
              UpdateExisting(sess.objs[item_dict.item_id], item_dict)]
    ELSE sess

\* "Create or update item": setattr on the loaded object, or db.add of a new one.
CreateOrUpdate(sess, item_dict) ==
    IF item_dict.existing_item
    THEN [sess EXCEPT !.objs[item_dict.item_id] =
              UpdateExisting(sess.objs[item_dict.item_id], item_dict)]
    ELSE [sess EXCEPT !.new_items =
              Append(@, [item_id |-> item_dict.item_id, row |-> ItemRow(item_dict)])]

\* The session after the second pass: the loaded objects as modified, the new
\* Item objects and the new PriceHistory objects, in the order they were added.
RECURSIVE SecondPass(_, _, _, _)
SecondPass(to_process, now, i, sess) ==
    IF i > Len(to_process) THEN sess
    ELSE
      LET withItem == CreateOrUpdate(sess, to_process[i])
      IN SecondPass(to_process, now, i + 1,
             [withItem EXCEPT !.new_prices = Append(@, PriceEntry(to_process[i], now))])

\* ------------------------------------------------------------------- store
\* Variant: a table without the primary key takes the row of an identity it
\* already holds.
RECURSIVE InsertItemsUnchecked(_, _, _)
InsertItemsUnchecked(db_items, new_items, i) ==
    IF i > Len(new_items) THEN [ok |-> TRUE, items |-> db_items]
    ELSE InsertItemsUnchecked(
             [id \in DOMAIN db_items \cup {new_items[i].item_id} |->
                 IF id = new_items[i].item_id THEN new_items[i].row ELSE db_items[id]],
             new_items, i + 1)

\* INSERTs of game_items rows, one at a time; a primary-key conflict stops the
\* flush with the rows written so far.
RECURSIVE InsertItems(_, _, _)
InsertItems(db_items, new_items, i) ==
    IF i > Len(new_items) THEN [ok |-> TRUE, items |-> db_items]
    ELSE IF new_items[i].item_id \in DOMAIN db_items
         THEN [ok |-> FALSE, items |-> db_items]
         ELSE InsertItems(db_items @@ (new_items[i].item_id :> new_items[i].row),
                          new_items, i + 1)

\* The flush of a session: UPDATEs of the modified objects, INSERTs of the new
\* Items, then INSERTs of the new PriceHistory rows.  The foreign key of
\* price_history is not relied on: the flush accepts any price row.
Flush(db_items, db_prices, sess) ==
    LET updated == [id \in DOMAIN db_items |->
                      IF id \in DOMAIN sess.objs THEN sess.objs[id] ELSE db_items[id]]
        inserted == InsertItems(updated, sess.new_items, 1)
    IN [ok |-> inserted.ok,
        items |-> inserted.items,
        prices |-> IF inserted.ok THEN db_prices \o sess.new_prices ELSE db_prices]

\* Variant: a commit that raises leaves what the flush wrote.
CommitWithoutRollback(db_items, db_prices, sess, fault) ==
    LET flushed == Flush(db_items, db_prices, sess)
    IN [ok |-> flushed.ok /\ ~fault, items |-> flushed.items, prices |-> flushed.prices]

\* db.commit() and, when it raises, db.rollback(): the transaction is kept
\* whole or not at all.
CommitOrRollback(db_items, db_prices, sess, fault) ==
    LET flushed == Flush(db_items, db_prices, sess)
    IN IF flushed.ok /\ ~fault
       THEN [ok |-> TRUE, items |-> flushed.items, prices |-> flushed.prices]
       ELSE [ok |-> FALSE, items |-> db_items, prices |-> db_prices]

\* Variant: an update that raises inside the loop ends the thread.
StopAfterUpdateError(is_initial) ==
    IF is_initial THEN "sleep" ELSE "stopped"

\* Where run_polling_loop goes when update_items_and_prices raises.
AfterUpdateError(is_initial) ==
    IF is_initial THEN "sleep" ELSE "error_sleep"

NoResp == <<0, 0>>
NoReq == [kind |-> "none", rows |-> <<>>, failed |-> 0, errors |-> <<>>]
NoReply == [status |-> 0, detail |-> "", created |-> 0, failed |-> 0,
            errors |-> <<>>, body |-> <<>>]
Reply(status, detail) == [NoReply EXCEPT !.status = status, !.detail = detail]

NoSearch == [query |-> <<>>, limit |-> 0, members_only |-> None]
NoResponse == [status |-> 0, detail |-> "", results |-> <<>>, total |-> 0, query |-> <<>>]

\* No search request is being served.
SearchIdle ==
    /\ spc = "idle"
    /\ search_query = NoSearch
    /\ table = <<>>
    /\ table_commits = 0
    /\ vector_rows = <<>>
    /\ keyword_rows = <<>>
    /\ all_rows = <<>>
    /\ search_response = NoResponse
    /\ formatted_query = <<>>

StoreInit ==
    /\ pc = "start"
    /\ initial = TRUE
    /\ cycles = 0
    /\ waited = 0
    /\ outcome = "none"
    /\ cur_resp = NoResp
    /\ last_ok = NoResp
    /\ items_to_process = <<>>
    /\ item_indices_for_embedding = <<>>
    /\ batch_start = 0
    /\ embed_calls = 0
    /\ embed_failed = FALSE
    /\ loaded = <<>>
    /\ items = <<>>
    /\ prices = <<>>
    /\ req = NoReq
    /\ requests = 0
    /\ resp = NoReply
    /\ provider_calls = 0
    /\ embedding_service = 0
    /\ instances = 0
    /\ gpc = [t \in Callers |-> "idle"]
    /\ built = [t \in Callers |-> 0]
    /\ calls = [t \in Callers |-> 0]
    /\ handed_out = {}

Init == StoreInit /\ SearchIdle

\* run_polling_loop: the initial update starts without a wait.
InitialUpdate ==
    /\ pc = "start"
    /\ pc' = "FETCHING"
    /\ cycles' = cycles + 1
    /\ UNCHANGED <<initial, waited, outcome, cur_resp, last_ok, items_to_process,
                   item_indices_for_embedding, batch_start, embed_calls,
                   embed_failed, loaded>>
    /\ UNCHANGED <<storeVars, reqVars, searchVars>>
    /\ UNCHANGED providerVars

\* update_items_and_prices up to the end of the first pass.
FetchAndDiff ==
    /\ pc = "FETCHING"
    /\ \E m \in DOMAIN MappingResponses, p \in DOMAIN PriceResponses :
         LET mapping_data == fetch_item_mapping(MappingResponses[m])
             prices_data == fetch_latest_prices(PriceResponses[p])
             first == FirstPass(mapping_data, prices_data, items, 1,
                          [items_to_process |-> <<>>, item_indices_for_embedding |-> <<>>])
         IN /\ cur_resp' = <<m, p>>
            /\ embed_calls' = 0
            /\ embed_failed' = FALSE
            /\ batch_start' = 0
            /\ IF SkipsUpdate(mapping_data, prices_data)
               THEN /\ pc' = "sleep"
                    /\ outcome' = "skipped"
                    /\ last_ok' = NoResp
                    /\ waited' = 0
                    /\ UNCHANGED <<items_to_process, item_indices_for_embedding, loaded>>
               ELSE /\ items_to_process' = first.items_to_process
                    /\ item_indices_for_embedding' = first.item_indices_for_embedding
                    /\ loaded' = [id \in {first.items_to_process[k].item_id :
                                            k \in DOMAIN first.items_to_process}
                                         \cap DOMAIN items |-> items[id]]
                    /\ pc' = IF first.item_indices_for_embedding # <<>>
                             THEN "EMBEDDING" ELSE "PERSISTING"
                    /\ UNCHANGED <<outcome, last_ok, waited>>
    /\ UNCHANGED <<initial, cycles>>
    /\ UNCHANGED <<storeVars, reqVars, searchVars>>
    /\ UNCHANGED providerVars

\* One batch of the embedding loop; the provider call succeeds or raises.
EmbedBatch ==
    /\ pc = "EMBEDDING"
    /\ \E ok \in BOOLEAN :
         /\ items_to_process' =
              AssignBatch(items_to_process, item_indices_for_embedding, batch_start, ok)
         /\ embed_failed' = (embed_failed \/ ~ok)
    /\ embed_calls' = embed_calls + 1
    /\ LET batch_end == IF batch_start + BatchSize < Len(item_indices_for_embedding)
                        THEN batch_start + BatchSize
                        ELSE Len(item_indices_for_embedding)
       IN /\ batch_start' = batch_end
          /\ pc' = IF batch_end = Len(item_indices_for_embedding)
                   THEN "PERSISTING" ELSE "EMBEDDING"
    /\ UNCHANGED <<initial, cycles, waited, outcome, cur_resp, last_ok,
                   item_indices_for_embedding, loaded>>
    /\ UNCHANGED <<storeVars, reqVars, searchVars>>
    /\ UNCHANGED providerVars

\* The second pass and the commit, or the rollback and the raise.
Persist ==
    /\ pc = "PERSISTING"
    /\ \E fault \in BOOLEAN :
         LET sess == SecondPass(items_to_process, cycles, 1,
                        [objs |-> loaded, new_items |-> <<>>, new_prices |-> <<>>])
             done == CommitOrRollback(items, prices, sess, fault)
         IN /\ items' = done.items
            /\ prices' = done.prices
            /\ IF done.ok
               THEN /\ pc' = "sleep"
                    /\ outcome' = "completed"
                    /\ last_ok' = cur_resp
               ELSE /\ pc' = AfterUpdateError(initial)
                    /\ outcome' = "raised"
                    /\ last_ok' = NoResp
    /\ items_to_process' = <<>>
    /\ item_indices_for_embedding' = <<>>
    /\ loaded' = <<>>
    /\ waited' = 0
    /\ UNCHANGED <<initial, cycles, cur_resp, batch_start, embed_calls, embed_failed>>
    /\ UNCHANGED <<reqVars, searchVars>>
    /\ UNCHANGED providerVars

\* time.sleep(60) in the except branch of the loop.
ErrorSleep ==
    /\ pc = "error_sleep"
    /\ pc' = "sleep"
    /\ waited' = waited + 1
    /\ UNCHANGED <<initial, cycles, outcome, cur_resp, last_ok, items_to_process,
                   item_indices_for_embedding, batch_start, embed_calls,
                   embed_failed, loaded>>
    /\ UNCHANGED <<storeVars, reqVars, searchVars>>
    /\ UNCHANGED providerVars

\* time.sleep(60) at the head of the loop, then the scheduled update starts.
Sleep ==
    /\ pc = "sleep"
    /\ cycles < MaxCycles
    /\ pc' = "FETCHING"
    /\ initial' = FALSE
    /\ cycles' = cycles + 1
    /\ waited' = waited + 1
    /\ UNCHANGED <<outcome, cur_resp, last_ok, items_to_process,
                   item_indices_for_embedding, batch_start, embed_calls,
                   embed_failed, loaded>>
    /\ UNCHANGED <<storeVars, reqVars, searchVars>>
    /\ UNCHANGED providerVars

Poll == InitialUpdate \/ FetchAndDiff \/ EmbedBatch \/ Persist \/ ErrorSleep \/ Sleep

\* ------------------------------------------------------------------ main.py
NewItem(item_dict, embedding) ==
    [item_id |-> item_dict.id,
     row |-> [name |-> item_dict.name, examine |-> item_dict.examine,
              members |-> item_dict.members, value |-> item_dict.value,
              embedding |-> embedding]]

\* The duplicate check of create_items_batch: the entries to create, each
\* with its embedding, the number counted as failed and their error entries.
RECURSIVE BatchToCreate(_, _, _, _)
BatchToCreate(batch, db_items, i, acc) ==
    IF i > Len(batch) THEN acc
    ELSE IF batch[i].id \in DOMAIN db_items
         THEN BatchToCreate(batch, db_items, i + 1,
                  [acc EXCEPT !.failed = @ + 1, !.errors = Append(@, batch[i].id)])
         ELSE BatchToCreate(batch, db_items, i + 1,
                  [acc EXCEPT !.rows = Append(@,
                       NewItem(batch[i], embed_text(create_searchable_text(batch[i]))))])

\* Variant: create_item embeds and goes on without the duplicate check.
EmbedWithoutCheck(item, db_items, ok) ==
    IF ok
    THEN [status |-> 0, detail |-> "", provider_calls |-> 1,
          rows |-> << NewItem(item, embed_text(create_searchable_text(item))) >>]
    ELSE [status |-> 500, detail |-> "Internal Server Error", provider_calls |-> 1,
          rows |-> <<>>]

\* create_item up to the embedding: the duplicate check answers 400 before
\* the provider is called, a provider error is an unhandled exception (500),
\* otherwise the Item waits for its commit (status 0: no answer yet).
CheckAndEmbed(item, db_items, ok) ==
    IF item.id \in DOMAIN db_items
    THEN [status |-> 400, detail |-> "already exists", provider_calls |-> 0,
          rows |-> <<>>]
    ELSE IF ok
    THEN [status |-> 0, detail |-> "", provider_calls |-> 1,
          rows |-> << NewItem(item, embed_text(create_searchable_text(item))) >>]
    ELSE [status |-> 500, detail |-> "Internal Server Error", provider_calls |-> 1,
          rows |-> <<>>]

CreateItemFor(item, ok) ==
    /\ req.kind = "none"
    /\ requests < MaxRequests
    /\ requests' = requests + 1
    /\ LET out == CheckAndEmbed(item, items, ok)
       IN /\ provider_calls' = out.provider_calls
          /\ IF out.status = 0
             THEN /\ req' = [kind |-> "item", failed |-> 0, errors |-> <<>>,
                             rows |-> out.rows]
                  /\ resp' = NoReply
             ELSE /\ resp' = Reply(out.status, out.detail)
                  /\ req' = NoReq
    /\ UNCHANGED <<pollVars, storeVars, searchVars>>
    /\ UNCHANGED providerVars

CreateItemBegin == \E item \in ItemCreates, ok \in BOOLEAN : CreateItemFor(item, ok)

\* db.add, db.commit of create_item; a failed commit is an unhandled error
\* and the request's session is closed without its row.
CreateItemCommit ==
    /\ req.kind = "item"
    /\ \E fault \in BOOLEAN :
         LET done == CommitOrRollback(items, prices,
                        [objs |-> <<>>, new_items |-> req.rows, new_prices |-> <<>>], fault)
         IN /\ items' = done.items
            /\ prices' = done.prices
            /\ resp' = IF done.ok THEN Reply(200, "")
                       ELSE Reply(500, "Internal Server Error")
    /\ req' = NoReq
    /\ UNCHANGED <<pollVars, requests, provider_calls, searchVars>>
    /\ UNCHANGED providerVars

\* Variant: a provider error leaves the batch entries without vectors.
CheckAndEmbedBatchDegraded(batch, db_items, ok) ==
    LET todo == BatchToCreate(batch, db_items, 1,
                    [rows |-> <<>>, failed |-> 0, errors |-> <<>>])
    IN [status |-> IF todo.rows = <<>> THEN 200 ELSE 0, detail |-> "",
        provider_calls |-> IF todo.rows = <<>> THEN 0 ELSE 1,
        rows |-> IF ok THEN todo.rows
                 ELSE [k \in DOMAIN todo.rows |->
                         [todo.rows[k] EXCEPT !.row.embedding = None]],
        failed |-> todo.failed, errors |-> todo.errors]

\* create_items_batch up to the embedding of the entries that are no
\* duplicates: nothing to create answers 200, a provider error 500.
CheckAndEmbedBatch(batch, db_items, ok) ==
    LET todo == BatchToCreate(batch, db_items, 1,
                    [rows |-> <<>>, failed |-> 0, errors |-> <<>>])
    IN IF todo.rows = <<>>
       THEN [status |-> 200, detail |-> "", provider_calls |-> 0, rows |-> <<>>,
             failed |-> todo.failed, errors |-> todo.errors]
       ELSE IF ok
       THEN [status |-> 0, detail |-> "", provider_calls |-> 1, rows |-> todo.rows,
             failed |-> todo.failed, errors |-> todo.errors]
       ELSE [status |-> 500, detail |-> "Failed to generate embeddings",
             provider_calls |-> 1, rows |-> <<>>, failed |-> 0, errors |-> <<>>]

CreateItemsBatchFor(batch, ok) ==
    /\ req.kind = "none"
    /\ requests < MaxRequests
    /\ requests' = requests + 1
    /\ LET out == CheckAndEmbedBatch(batch, items, ok)
       IN /\ provider_calls' = out.provider_calls
          /\ IF out.status = 0
             THEN /\ req' = [kind |-> "batch", failed |-> out.failed,
                             errors |-> out.errors, rows |-> out.rows]
                  /\ resp' = NoReply
             ELSE /\ resp' = [Reply(out.status, out.detail) EXCEPT
                                 !.failed = out.failed, !.errors = out.errors]
                  /\ req' = NoReq
    /\ UNCHANGED <<pollVars, storeVars, searchVars>>
    /\ UNCHANGED providerVars

CreateItemsBatchBegin ==
    \E batch \in BatchItemCreates, ok \in BOOLEAN : CreateItemsBatchFor(batch, ok)

\* The db.add loop and the single db.commit of create_items_batch.
CreateItemsBatchCommit ==
    /\ req.kind = "batch"
    /\ \E fault \in BOOLEAN :
         LET done == CommitOrRollback(items, prices,
                        [objs |-> <<>>, new_items |-> req.rows, new_prices |-> <<>>], fault)
         IN /\ items' = done.items
            /\ prices' = done.prices
            /\ resp' = IF done.ok
                       THEN [Reply(200, "") EXCEPT !.created = Len(req.rows),
                                                   !.failed = req.failed,
                                                   !.errors = req.errors]
                       ELSE Reply(500, "Internal Server Error")
    /\ req' = NoReq
    /\ UNCHANGED <<pollVars, requests, provider_calls, searchVars>>
    /\ UNCHANGED providerVars

Requests ==
    CreateItemBegin \/ CreateItemCommit \/ CreateItemsBatchBegin \/ CreateItemsBatchCommit

Next == Poll \/ Requests

\* ------------------------------------------------------ main.py: price lookups
HistoryLimits == {1, 100}

\* The PriceHistory rows of one item.
PricesOf(db_prices, id) ==
    LET Mine(row) == row.item_id = id IN SelectSeq(db_prices, Mine)

\* ORDER BY timestamp DESC: every order the database may give to rows of
\* equal timestamp.
LatestFirst(rows) ==
    {[k \in DOMAIN rows |-> rows[f[k]]] :
        f \in {g \in Perms(DOMAIN rows) :
                  \A i, j \in DOMAIN rows :
                      i < j => rows[g[i]].timestamp >= rows[g[j]].timestamp}}

ItemPriceResponse(id, item, row) ==
    [item_id |-> id, name |-> item.name, high_price |-> row.high_price,
     low_price |-> row.low_price, timestamp |-> row.timestamp]

\* get_item_price_history: 404 for an unknown item, otherwise the item's
\* rows, latest first, at most `limit` of them (none is an empty list).
GetItemPriceHistoryFor(id, limit) ==
    /\ req.kind = "none"
    /\ IF id \notin DOMAIN items
       THEN resp' = Reply(404, "Item not found")
       ELSE \E ordered \in LatestFirst(PricesOf(prices, id)) :
               resp' = [Reply(200, "") EXCEPT !.body = FirstRows(ordered, limit)]
    /\ provider_calls' = 0
    /\ UNCHANGED <<pollVars, storeVars, req, requests, searchVars>>
    /\ UNCHANGED providerVars

GetItemPriceHistory ==
    \E id \in ItemIds, limit \in HistoryLimits : GetItemPriceHistoryFor(id, limit)

\* get_current_item_price: 404 for an unknown item, another 404 for an item
\* without rows, otherwise the first row of the latest-first order.
GetCurrentItemPriceFor(id) ==
    /\ req.kind = "none"
    /\ IF id \notin DOMAIN items
       THEN resp' = Reply(404, "Item not found")
       ELSE IF PricesOf(prices, id) = <<>>
       THEN resp' = Reply(404, "No price data available for this item")
       ELSE \E ordered \in LatestFirst(PricesOf(prices, id)) :
               resp' = [Reply(200, "") EXCEPT
                          !.body = << ItemPriceResponse(id, items[id], ordered[1]) >>]
    /\ provider_calls' = 0
    /\ UNCHANGED <<pollVars, storeVars, req, requests, searchVars>>
    /\ UNCHANGED providerVars

GetCurrentItemPrice == \E id \in ItemIds : GetCurrentItemPriceFor(id)

PriceLookups == GetItemPriceHistory \/ GetCurrentItemPrice

NextPrices == Poll \/ Requests \/ PriceLookups

\* ------------------------------------------------------ main.py: search_items
\* Python's `a in b` on strings.
IsIn(a, b) ==
    \E i \in 0..(Len(b) - Len(a)) : SubSeq(b, i + 1, i + Len(a)) = a

\* str.split(): the maximal runs without whitespace.
split(s) ==
    LET starts == {i \in DOMAIN s :
                     s[i] \notin Whitespace /\ (i = 1 \/ s[i - 1] \in Whitespace)}
        EndOf(i) == CHOOSE j \in i..Len(s) :
                       /\ j = Len(s) \/ s[j + 1] \in Whitespace
                       /\ \A k \in i..j : s[k] \notin Whitespace
    IN {SubSeq(s, i, EndOf(i)) : i \in starts}

QueryWords(query_lower) == {word \in split(query_lower) : Len(word) > 1}

MembersFilter(row, members_only) ==
    members_only = None \/ row.members = members_only[1]

RowOf(tbl, id) ==
    [item_id |-> id, name |-> tbl[id].name, members |-> tbl[id].members,
     similarity |-> tbl[id].similarity]

\* What the vector statement can return: the rows with a vector that pass the
\* membership filter, by descending similarity (equal similarities in any
\* order), cut at the candidate limit.
VectorStatement(tbl, sq) ==
    LET candidate_limit == Min(sq.limit * CandidateFactor, CandidateCeiling)
        hits == {id \in DOMAIN tbl :
                   tbl[id].embedded /\ MembersFilter(tbl[id], sq.members_only)}
    IN {FirstRows([k \in DOMAIN f |-> RowOf(tbl, f[k])], candidate_limit) :
          f \in {g \in Perms(hits) :
                   \A i, j \in DOMAIN g :
                      i < j => tbl[g[i]].similarity >= tbl[g[j]].similarity}}

\* Variant: the keyword statement without its filter on the vector.
KeywordStatementAnyRow(tbl, sq, query_words) ==
    IF query_words = {} THEN { <<>> }
    ELSE
      LET hits == {id \in DOMAIN tbl :
                     /\ \A word \in query_words : IsIn(word, lower(tbl[id].name))
                     /\ MembersFilter(tbl[id], sq.members_only)}
      IN {FirstRows([k \in DOMAIN f |-> RowOf(tbl, f[k])], KeywordLimit) :
            f \in Perms(hits)}

\* What the keyword statement can return: the rows with a vector whose name
\* contains every query word, case-insensitively, and that pass the
\* membership filter, in any order, cut at KeywordLimit.
KeywordStatement(tbl, sq, query_words) ==
    IF query_words = {} THEN { <<>> }
    ELSE
      LET hits == {id \in DOMAIN tbl :
                     /\ tbl[id].embedded
                     /\ \A word \in query_words : IsIn(word, lower(tbl[id].name))
                     /\ MembersFilter(tbl[id], sq.members_only)}
      IN {FirstRows([k \in DOMAIN f |-> RowOf(tbl, f[k])], KeywordLimit) :
            f \in Perms(hits)}

\* Rows appended to `acc` unless their item_id is already in it.
RECURSIVE AppendUnseen(_, _, _)
AppendUnseen(acc, rows, i) ==
    IF i > Len(rows) THEN acc
    ELSE AppendUnseen(
             IF \E k \in DOMAIN acc : acc[k].item_id = rows[i].item_id
             THEN acc ELSE Append(acc, rows[i]),
             rows, i + 1)

\* Variant: the keyword list is merged first.
MergeKeywordFirst(vec, kw) == AppendUnseen(AppendUnseen(<<>>, kw, 1), vec, 1)

MergeRows(vec, kw) == AppendUnseen(AppendUnseen(<<>>, vec, 1), kw, 1)

\* Variant: the similarity unweighted and the sum without the cap.
CombinedScoreUncapped(row, query) ==
    row.similarity * 100
      + (IF IsIn(lower(query), lower(row.name)) THEN 1500 + 1500 ELSE 0)

\* Variant: the similarity alone.
CombinedScoreSemanticOnly(row, query) == row.similarity * 70

\* The combined score of a row, in units of 1/10000: similarity is in
\* percent, so semantic * 0.7 is similarity * 70, keyword_score * 0.3 is 1500
\* for keyword_score 0.5 and 600 * matching / |words| for the proportional
\* score, and the boosts are 1500 and 1000 under the cap of 10000.
CombinedScore(row, query) ==
    LET query_lower == lower(query)
        query_words == QueryWords(query_lower)
        name_lower == lower(row.name)
        matching_words == Cardinality({word \in query_words : IsIn(word, name_lower)})
        query_in_name == IsIn(query_lower, name_lower)
        name_in_query == IsIn(name_lower, query_lower)
        keyword_term == IF query_in_name \/ name_in_query THEN 1500
                        ELSE IF matching_words > 0
                        THEN (600 * matching_words) \div Cardinality(query_words)
                        ELSE 0
        combined_score == row.similarity * 70 + keyword_term
    IN IF query_in_name THEN Min(10000, combined_score + 1500)
       ELSE IF matching_words = Cardinality(query_words) /\ Cardinality(query_words) > 0
       THEN Min(10000, combined_score + 1000)
       ELSE combined_score

SearchResult(row, query) ==
    [item |-> [item_id |-> row.item_id, name |-> row.name, members |-> row.members],
     similarity |-> CombinedScore(row, query)]

\* Variant: an entry goes ahead of the entries that score the same.
SortInsertAheadOfTies(sorted, x) ==
    LET k == Cardinality({i \in DOMAIN sorted : sorted[i].similarity > x.similarity})
    IN SubSeq(sorted, 1, k) \o <<x>> \o SubSeq(sorted, k + 1, Len(sorted))

\* list.sort(key=score, reverse=True) is stable: an entry goes behind every
\* entry that scores at least as high.
SortInsert(sorted, x) ==
    LET k == Cardinality({i \in DOMAIN sorted : sorted[i].similarity >= x.similarity})
    IN SubSeq(sorted, 1, k) \o <<x>> \o SubSeq(sorted, k + 1, Len(sorted))

\* Variant: a sort that takes the entries from the last to the first, so
\* that entries of equal score come out in reverse.
RECURSIVE SortDescendingFromLast(_, _, _)
SortDescendingFromLast(scored, i, sorted) ==
    IF i > Len(scored) THEN sorted
    ELSE SortDescendingFromLast(scored, i + 1,
             SortInsert(sorted, scored[Len(scored) + 1 - i]))

RECURSIVE SortDescending(_, _, _)
SortDescending(scored, i, sorted) ==
    IF i > Len(scored) THEN sorted
    ELSE SortDescending(scored, i + 1, SortInsert(sorted, scored[i]))

\* SearchResult validates 0 <= similarity <= 1; the error it raises for any
\* merged row is caught by the handler and answered with status 500.
Rank(rows, sq) ==
    LET scored_results == [i \in DOMAIN rows |-> SearchResult(rows[i], sq.query)]
        results == FirstRows(SortDescending(scored_results, 1, <<>>), sq.limit)
    IN IF \E i \in DOMAIN scored_results :
             scored_results[i].similarity < 0 \/ scored_results[i].similarity > 10000
       THEN [NoResponse EXCEPT !.status = 500, !.detail = "Search failed"]
       ELSE [status |-> 200, detail |-> "", results |-> results,
             total |-> Len(results), query |-> sq.query]

\* A search request and the table it runs against.
SearchInit ==
    /\ spc = "request"
    /\ search_query \in [query : Queries, limit : 1..MaxLimit,
                          members_only : {None, Some(TRUE), Some(FALSE)}]
    /\ \E sim \in SimVectors, with_vector \in {SearchIds, SearchIds \ {2}} :
         table = [id \in SearchIds |->
                    [name |-> SearchNames[id], members |-> SearchMembers[id],
                     embedded |-> id \in with_vector, similarity |-> sim[id]]]
    /\ table_commits = 0
    /\ vector_rows = <<>>
    /\ keyword_rows = <<>>
    /\ all_rows = <<>>
    /\ search_response = NoResponse
    /\ formatted_query = <<>>

\* Variant: a provider error leaves the request to the keyword statement.
SearchEmbedKeywordFallback ==
    /\ spc = "request"
    /\ formatted_query' = format_query_for_embedding(search_query.query)
    /\ \E ok \in BOOLEAN : spc' = IF ok THEN "vector" ELSE "keyword"
    /\ UNCHANGED <<search_query, table, table_commits, vector_rows, keyword_rows, all_rows,
                   search_response>>
    /\ UNCHANGED <<pollVars, storeVars, reqVars>>
    /\ UNCHANGED providerVars

\* The query embedding: a provider error fails the request.
SearchEmbed ==
    /\ spc = "request"
    /\ formatted_query' = format_query_for_embedding(search_query.query)
    /\ \E ok \in BOOLEAN :
         IF ok
         THEN spc' = "vector" /\ UNCHANGED search_response
         ELSE /\ spc' = "done"
              /\ search_response' =
                    [NoResponse EXCEPT !.status = 500,
                                       !.detail = "Failed to generate embedding"]
    /\ UNCHANGED <<search_query, table, table_commits, vector_rows, keyword_rows, all_rows>>
    /\ UNCHANGED <<pollVars, storeVars, reqVars>>
    /\ UNCHANGED providerVars

VectorSearch ==
    /\ spc = "vector"
    /\ vector_rows' \in VectorStatement(table, search_query)
    /\ spc' = "keyword"
    /\ UNCHANGED <<search_query, table, table_commits, keyword_rows, all_rows,
                   search_response, formatted_query>>
    /\ UNCHANGED <<pollVars, storeVars, reqVars>>
    /\ UNCHANGED providerVars

\* Another session commits between the two statements (READ COMMITTED): an
\* update stores a vector for a row, or renames it and stores the new vector.
TableCommit ==
    /\ spc = "keyword"
    /\ table_commits < MaxTableCommits
    /\ table_commits' = table_commits + 1
    /\ \E id \in DOMAIN table :
         \/ /\ ~table[id].embedded
            /\ table' = [table EXCEPT ![id].embedded = TRUE]
         \/ \E sim \in SimValues :
              table' = [table EXCEPT ![id].name = RenamedTo[id],
                                     ![id].embedded = TRUE,
                                     ![id].similarity = sim]
    /\ UNCHANGED <<spc, search_query, vector_rows, keyword_rows, all_rows, search_response,
                   formatted_query>>
    /\ UNCHANGED <<pollVars, storeVars, reqVars>>
    /\ UNCHANGED providerVars

\* The keyword statement, the merge, the scoring, the sort and the response.
KeywordSearchAndRank ==
    /\ spc = "keyword"
    /\ keyword_rows' \in
          KeywordStatement(table, search_query, QueryWords(lower(search_query.query)))
    /\ all_rows' = MergeRows(vector_rows, keyword_rows')
    /\ search_response' = Rank(all_rows', search_query)
    /\ spc' = "done"
    /\ UNCHANGED <<search_query, table, table_commits, vector_rows, formatted_query>>
    /\ UNCHANGED <<pollVars, storeVars, reqVars>>
    /\ UNCHANGED providerVars

NextSearch == SearchEmbed \/ VectorSearch \/ TableCommit \/ KeywordSearchAndRank

InitSearch == StoreInit /\ SearchInit

\* A search request against a table of two rows with vectors, whose names
\* and similarities are drawn from ScoreNames and ScoreSims.
ScoreInit ==
    /\ spc = "request"
    /\ search_query \in [query : ScoreQueries, limit : 1..MaxLimit, members_only : {None}]
    /\ \E name \in [1..2 -> ScoreNames], sim \in [1..2 -> ScoreSims] :
         table = [id \in 1..2 |->
                    [name |-> name[id], members |-> TRUE,
                     embedded |-> TRUE, similarity |-> sim[id]]]
    /\ table_commits = 0
    /\ vector_rows = <<>>
    /\ keyword_rows = <<>>
    /\ all_rows = <<>>
    /\ search_response = NoResponse
    /\ formatted_query = <<>>

InitScore == StoreInit /\ ScoreInit

ScenarioInit ==
    /\ spc = "request"
    /\ search_query \in [query : {ScenarioQuery}, limit : 1..MaxLimit,
                          members_only : {None, Some(TRUE)}]
    /\ \E sim \in ScenarioSims :
         table = [id \in DOMAIN ScenarioNames |->
                    [name |-> ScenarioNames[id], members |-> TRUE,
                     embedded |-> TRUE, similarity |-> sim[id]]]
    /\ table_commits = 0
    /\ vector_rows = <<>>
    /\ keyword_rows = <<>>
    /\ all_rows = <<>>
    /\ search_response = NoResponse
    /\ formatted_query = <<>>

InitScenario == StoreInit /\ ScenarioInit

\* search_items with no commit of another session between its statements.
NextQuiet == SearchEmbed \/ VectorSearch \/ KeywordSearchAndRank

SpecScore == InitScore /\ [][NextQuiet]_vars

SpecScenario == InitScenario /\ [][NextQuiet]_vars

\* A search request whose query is drawn from FormatQueries (a query has at
\* least one character), up to its query embedding.
FormatInit ==
    /\ spc = "request"
    /\ search_query \in [query : FormatQueries \ {<<>>}, limit : {1}, members_only : {None}]
    /\ table = <<>>
    /\ table_commits = 0
    /\ vector_rows = <<>>
    /\ keyword_rows = <<>>
    /\ all_rows = <<>>
    /\ search_response = NoResponse
    /\ formatted_query = <<>>

InitFormat == StoreInit /\ FormatInit

SpecFormat == InitFormat /\ [][SearchEmbed]_vars

SpecSearch == InitSearch /\ [][NextSearch]_vars

Spec == Init /\ [][Next]_vars

\* Polling and creation requests, the polling thread kept running (as in
\* SpecLive): requests come when clients send them.
SpecRace == Init /\ [][Next]_vars /\ WF_vars(Poll)

\* Polling, creation requests and price lookups.
SpecPrices == Init /\ [][NextPrices]_vars

\* ---------------------------------------- embeddings.py: get_embedding_service
\* `if _embedding_service is None`: the read of the global.
GetServiceCheck(t) ==
    /\ gpc[t] = "idle"
    /\ calls[t] < MaxCalls
    /\ calls' = [calls EXCEPT ![t] = @ + 1]
    /\ gpc' = [gpc EXCEPT ![t] = IF embedding_service = 0 THEN "construct" ELSE "return"]
    /\ UNCHANGED <<embedding_service, instances, built, handed_out>>
    /\ UNCHANGED <<pollVars, storeVars, reqVars, searchVars>>

\* EmbeddingService(model_name=...): the model is loaded, or _load_model
\* raises and the call ends with the global as it was.
GetServiceConstruct(t) ==
    /\ gpc[t] = "construct"
    /\ \E loaded_ok \in BOOLEAN :
         IF loaded_ok
         THEN /\ instances' = instances + 1
              /\ built' = [built EXCEPT ![t] = instances + 1]
              /\ gpc' = [gpc EXCEPT ![t] = "store"]
         ELSE /\ gpc' = [gpc EXCEPT ![t] = "idle"]
              /\ UNCHANGED <<instances, built>>
    /\ UNCHANGED <<embedding_service, calls, handed_out>>
    /\ UNCHANGED <<pollVars, storeVars, reqVars, searchVars>>

\* `_embedding_service = ...`: the write of the global.
GetServiceStore(t) ==
    /\ gpc[t] = "store"
    /\ embedding_service' = built[t]
    /\ gpc' = [gpc EXCEPT ![t] = "return"]
    /\ UNCHANGED <<instances, built, calls, handed_out>>
    /\ UNCHANGED <<pollVars, storeVars, reqVars, searchVars>>

\* `return _embedding_service`: the global is read again.
GetServiceReturn(t) ==
    /\ gpc[t] = "return"
    /\ handed_out' = handed_out \cup {embedding_service}
    /\ gpc' = [gpc EXCEPT ![t] = "idle"]
    /\ UNCHANGED <<embedding_service, instances, built, calls>>
    /\ UNCHANGED <<pollVars, storeVars, reqVars, searchVars>>

get_embedding_service ==
    \E t \in Callers :
        \/ GetServiceCheck(t)
        \/ GetServiceConstruct(t)
        \/ GetServiceStore(t)
        \/ GetServiceReturn(t)

\* The two threads calling get_embedding_service, nothing else moving.
SpecProvider == Init /\ [][get_embedding_service]_vars

\* The polling thread alone.  It is a daemon thread the scheduler keeps
\* running: a sleep returns, a fetch returns within its 30 s timeout, a
\* provider call and a commit return or raise.  Creation requests reach the
\* loop only through the outcome of its commit, which Persist leaves open.
SpecLive == Init /\ [][Poll]_vars /\ WF_vars(Poll)

\* ------------------------------------------------------------- properties
Waiting == pc \in {"sleep", "error_sleep"}
InUpdate == pc \in {"FETCHING", "EMBEDDING", "PERSISTING"}
FetchFailed(r) == ~MappingResponses[r[1]].ok \/ ~PriceResponses[r[2]].ok

\* A step of the polling thread that ends the commit phase / the fetch phase.
PersistStep == pc = "PERSISTING" /\ pc' # "PERSISTING"
FetchStep == pc = "FETCHING" /\ pc' # "FETCHING"
PendingSession ==
    SecondPass(items_to_process, cycles, 1,
        [objs |-> loaded, new_items |-> <<>>, new_prices |-> <<>>])

\* C1: the polling thread is always at a position of run_polling_loop; every
\* update it starts ends in a wait, and from the wait after any outcome
\* (skipped on a fetch failure, completed with or without a failed embedding
\* batch, raised) it starts another update (up to the modelled MaxCycles).
C1_LoopSurvivesEveryOutcome ==
    /\ [](pc \in {"start", "FETCHING", "EMBEDDING", "PERSISTING", "sleep", "error_sleep"})
    /\ (InUpdate ~> Waiting)
    /\ (Waiting /\ outcome \in {"skipped", "completed", "raised"} /\ cycles < MaxCycles)
          ~> (pc = "FETCHING")

C1_Witness ==
    pc = "FETCHING" /\ outcome = "raised" /\ cycles = MaxCycles

\* C2: a commit step of an update either completes or raises; it raises
\* whenever the flush hits a conflict, and when it raises the committed rows
\* are what they were, the session holds nothing and the loop is in a wait.
C2_FailedCommitKeepsNothing ==
    [][PersistStep =>
         /\ outcome' \in {"completed", "raised"}
         /\ (~Flush(items, prices, PendingSession).ok => outcome' = "raised")
         /\ (outcome' = "raised" =>
                /\ items' = items
                /\ prices' = prices
                /\ loaded' = <<>> /\ items_to_process' = <<>>
                /\ Waiting')]_vars

C2_Witness ==
    outcome = "raised" /\ Waiting /\ items = <<>> /\ prices = <<>> /\ requests = 0

\* C3: when either upstream request fails, the update ends at once as
\* skipped: no first pass, no provider call, no session, no raise, and the
\* committed rows are what they were.
C3_FetchFailureSkipsUpdate ==
    [][(FetchStep /\ FetchFailed(cur_resp')) =>
         /\ items' = items
         /\ prices' = prices
         /\ pc' = "sleep"
         /\ outcome' = "skipped"
         /\ items_to_process' = <<>> /\ loaded' = <<>>
         /\ embed_calls' = 0]_vars

C3_Witness ==
    outcome = "skipped" /\ FetchFailed(cur_resp) /\ pc = "sleep" /\ items # <<>>

\* The catalog entries of a response pair that have a price observation.
Observed(body, id) ==
    id \in DOMAIN body /\ (body[id].high # None \/ body[id].low # None)
PricedEntries(r) ==
    LET catalog == MappingResponses[r[1]].body
        body == PriceResponses[r[2]].body
    IN {k \in DOMAIN catalog : Observed(body, catalog[k].id)}

\* C4: an update that commits right after a committed update with the same
\* two responses changes no game_items row, has called the provider for no
\* entry, and appends one price_history row per priced catalog entry.
C4_IdenticalCycleIsIdempotent ==
    [][(PersistStep /\ outcome' = "completed" /\ cur_resp = last_ok) =>
         /\ items' = items
         /\ embed_calls = 0
         /\ Len(prices') = Len(prices) + Cardinality(PricedEntries(cur_resp))]_vars

\* The same for the catalogs that list no identity twice.
DistinctIdentities(r) ==
    LET catalog == MappingResponses[r[1]].body
    IN \A i, j \in DOMAIN catalog : catalog[i].id = catalog[j].id => i = j
IdenticalCycleDistinctIdentities ==
    [][(PersistStep /\ outcome' = "completed" /\ cur_resp = last_ok
           /\ DistinctIdentities(cur_resp)) =>
         /\ items' = items
         /\ embed_calls = 0
         /\ Len(prices') = Len(prices) + Cardinality(PricedEntries(cur_resp))]_vars

\* C5: every stored Item has at least one PriceHistory row.
C5_EveryItemHasPriceRow ==
    \A id \in DOMAIN items : \E k \in DOMAIN prices : prices[k].item_id = id

C7_PriceRowHasAPrice ==
    /\ \A p \in DOMAIN PriceResponses :
         LET prices_data == fetch_latest_prices(PriceResponses[p])
         IN \A id \in DOMAIN prices_data :
               prices_data[id].high # None \/ prices_data[id].low # None
    /\ \A k \in DOMAIN items_to_process :
         \/ items_to_process[k].price_info.high # None
         \/ items_to_process[k].price_info.low # None
    /\ \A k \in DOMAIN prices :
         prices[k].high_price # None \/ prices[k].low_price # None

C7_Witness ==
    /\ cur_resp = <<4, 5>> /\ outcome = "completed" /\ pc = "sleep"
    /\ \E k \in DOMAIN prices : prices[k].high_price = None /\ prices[k].timestamp = cycles

\* C8: every committed price_history row references a committed game_items row.
C8_PriceRowReferencesItem ==
    \A k \in DOMAIN prices : prices[k].item_id \in DOMAIN items

C8_Witness ==
    /\ outcome = "raised" /\ Waiting /\ cycles = MaxCycles
    /\ prices # <<>>
    /\ \A id \in DOMAIN items : \E k \in DOMAIN prices : prices[k].item_id = id

\* ------------------------------------------------------------ search claims
SearchDone == spc = "done" /\ search_response.status = 200

Ids(rows) == {rows[k].item_id : k \in DOMAIN rows}
RowWithId(rows, id) == rows[CHOOSE k \in DOMAIN rows : rows[k].item_id = id]
Occurrences(rows, id) == Cardinality({k \in DOMAIN rows : rows[k].item_id = id})
ResultOccurrences(results, id) ==
    Cardinality({k \in DOMAIN results : results[k].item.item_id = id})
InBothLists == Ids(vector_rows) \cap Ids(keyword_rows)

\* A returned entry carries the name, the membership flag and the similarity
\* (through the combined score) of the row `row`.
TakenFrom(result, row) ==
    /\ result.item.name = row.name
    /\ result.item.members = row.members
    /\ result.similarity = CombinedScore(row, search_query.query)

NoIdentityTwice ==
    /\ \A id \in SearchIds : Occurrences(all_rows, id) <= 1
    /\ \A id \in SearchIds : ResultOccurrences(search_response.results, id) <= 1

\* C9 as stated: a candidate in both the vector list and the keyword list is
\* exactly once in the returned results, with the fields and the similarity
\* of its vector-list occurrence, and no identity is twice in a result list.
C9_InBothListsReturnedOnce ==
    SearchDone =>
        /\ \A id \in InBothLists :
              /\ ResultOccurrences(search_response.results, id) = 1
              /\ \A k \in DOMAIN search_response.results :
                    search_response.results[k].item.item_id = id =>
                        TakenFrom(search_response.results[k], RowWithId(vector_rows, id))
        /\ NoIdentityTwice

\* C9 made precise: a candidate in both the vector list and the keyword list
\* is exactly once in the merged candidate list, as its vector-list row; it
\* is exactly once in the returned results when the merged list fits in the
\* limit and at most once otherwise; where it is returned it has the fields
\* and the similarity of its vector-list occurrence; and no identity is twice
\* in the merged list or in the returned results.
C9_InBothListsMergedOnce ==
    SearchDone =>
        /\ \A id \in InBothLists :
              /\ Occurrences(all_rows, id) = 1
              /\ RowWithId(all_rows, id) = RowWithId(vector_rows, id)
              /\ Len(all_rows) <= search_query.limit =>
                    ResultOccurrences(search_response.results, id) = 1
              /\ \A k \in DOMAIN search_response.results :
                    search_response.results[k].item.item_id = id =>
                        TakenFrom(search_response.results[k], RowWithId(vector_rows, id))
        /\ NoIdentityTwice

\* A returned candidate is in both lists, and its keyword-list row differs
\* from its vector-list row in the name and in the similarity.
C9_Witness ==
    /\ SearchDone
    /\ \E id \in InBothLists :
         /\ RowWithId(keyword_rows, id).name # RowWithId(vector_rows, id).name
         /\ RowWithId(keyword_rows, id).similarity # RowWithId(vector_rows, id).similarity
         /\ ResultOccurrences(search_response.results, id) = 1
         /\ Len(all_rows) > search_query.limit

\* The merge order: the vector list, then the keyword-list rows whose identity
\* is not in the vector list, in keyword-list order.
MergeOrder ==
    LET KeywordOnly(row) == row.item_id \notin Ids(vector_rows)
    IN vector_rows \o SelectSeq(keyword_rows, KeywordOnly)

MergePosition(id) == CHOOSE k \in DOMAIN MergeOrder : MergeOrder[k].item_id = id

\* C10: the response holds the best scoring merged candidates in non-increasing
\* order of combined score; candidates with equal combined score keep their
\* merge order (vector-list candidates before keyword-only candidates, each in
\* list order); the response holds at most `limit` entries; and `total` is
\* the number of entries returned.
C10_SortedStableAndTruncated ==
    SearchDone =>
        LET results == search_response.results
            Score(row) == CombinedScore(row, search_query.query)
        IN /\ \A k \in DOMAIN results :
                /\ results[k].item.item_id \in Ids(MergeOrder)
                /\ TakenFrom(results[k], RowWithId(MergeOrder, results[k].item.item_id))
           /\ \A i, j \in DOMAIN results :
                i < j =>
                  /\ results[i].similarity >= results[j].similarity
                  /\ results[i].similarity = results[j].similarity =>
                        MergePosition(results[i].item.item_id)
                            < MergePosition(results[j].item.item_id)
           /\ \A m \in DOMAIN MergeOrder :
                ResultOccurrences(results, MergeOrder[m].item_id) = 0 =>
                  \A k \in DOMAIN results :
                     \/ results[k].similarity > Score(MergeOrder[m])
                     \/ /\ results[k].similarity = Score(MergeOrder[m])
                        /\ MergePosition(results[k].item.item_id) < m
           /\ Len(results) = Min(search_query.limit, Len(MergeOrder))
           /\ Len(results) <= search_query.limit
           /\ search_response.total = Len(results)

\* Two returned entries tie, the earlier from the vector list and the later
\* from the keyword list only, a lower scoring entry was returned ahead of
\* neither, and candidates were cut off by the limit.
C10_Witness ==
    /\ SearchDone
    /\ Len(MergeOrder) > search_query.limit
    /\ \E i, j \in DOMAIN search_response.results :
         /\ i < j
         /\ search_response.results[i].similarity = search_response.results[j].similarity
         /\ search_response.results[i].item.item_id \in Ids(vector_rows)
         /\ search_response.results[j].item.item_id \notin Ids(vector_rows)

\* -------------------------------------------------------------- score claims
InUnitInterval(rows) ==
    \A k \in DOMAIN rows : rows[k].similarity >= 0 /\ rows[k].similarity <= 100

\* The keyword-score case and the boost of a row: the query is in the name,
\* the name is in the query, the number of query words in the name.
QueryInName(row) == IsIn(lower(search_query.query), lower(row.name))
NameInQuery(row) == IsIn(lower(row.name), lower(search_query.query))
MatchingWords(row) ==
    Cardinality({word \in QueryWords(lower(search_query.query)) :
                    IsIn(word, lower(row.name))})

\* C11: when every merged candidate has a cosine similarity in [0, 1], the
\* combined score of each lies in [0, 1] (0..10000 in units of 1/10000), the
\* request is answered with status 200, and every returned SearchResult
\* carries a similarity within the schema's bound.
C11_BlendedScoreInUnitInterval ==
    (spc = "done" /\ all_rows # <<>> /\ InUnitInterval(all_rows)) =>
        /\ \A k \in DOMAIN all_rows :
              /\ CombinedScore(all_rows[k], search_query.query) >= 0
              /\ CombinedScore(all_rows[k], search_query.query) <= 10000
        /\ search_response.status = 200
        /\ \A k \in DOMAIN search_response.results :
              /\ search_response.results[k].similarity >= 0
              /\ search_response.results[k].similarity <= 10000

\* A returned candidate of similarity 1 whose name contains the query sits
\* at the cap, beside one of similarity 0 without any match at the floor.
C11_Witness ==
    /\ SearchDone
    /\ \E i, j \in DOMAIN search_response.results :
         /\ search_response.results[i].similarity = 10000
         /\ search_response.results[j].similarity = 0
    /\ \E k \in DOMAIN all_rows :
         all_rows[k].similarity = 100 /\ QueryInName(all_rows[k])

\* A candidate with no query word in its name and no substring relation.
NoTokenMatch(row) ==
    MatchingWords(row) = 0 /\ ~QueryInName(row) /\ ~NameInQuery(row)

ResultPosition(id) ==
    CHOOSE k \in DOMAIN search_response.results :
        search_response.results[k].item.item_id = id

Returned(id) == ResultOccurrences(search_response.results, id) > 0

\* C12: of two merged candidates with the same cosine similarity in [0, 1],
\* the one whose name contains the lowercased query scores strictly more than
\* the one without any token match or substring relation, and ranks before
\* it: the latter is returned only behind the former.
C12_SubstringMatchOutranksNoMatch ==
    SearchDone =>
        \A a, b \in DOMAIN all_rows :
           ( /\ all_rows[a].similarity = all_rows[b].similarity
             /\ all_rows[a].similarity >= 0 /\ all_rows[a].similarity <= 100
             /\ QueryInName(all_rows[a])
             /\ NoTokenMatch(all_rows[b]) ) =>
               /\ CombinedScore(all_rows[a], search_query.query)
                     > CombinedScore(all_rows[b], search_query.query)
               /\ Returned(all_rows[b].item_id) =>
                     /\ Returned(all_rows[a].item_id)
                     /\ ResultPosition(all_rows[a].item_id)
                           < ResultPosition(all_rows[b].item_id)

\* Both are returned, the no-match candidate first in the merge order, and
\* both have similarity 1, where the cap applies to the matching one.
C12_Witness ==
    /\ SearchDone
    /\ Len(all_rows) = 2
    /\ all_rows[1].similarity = 100 /\ all_rows[2].similarity = 100
    /\ NoTokenMatch(all_rows[1])
    /\ QueryInName(all_rows[2])
    /\ Len(search_response.results) = 2
    /\ search_response.results[1].item.item_id = all_rows[2].item_id

\* The request got its query embedding and ran its statements.
Ranked == spc = "done" /\ vector_rows # <<>>

\* C13: the search for "dragon long" over an index that holds "Dragon
\* longsword" and items sharing no token with the query, none of them more
\* similar to the query than "Dragon longsword", is answered with "Dragon
\* longsword" as the first result, for every limit.
C13_DragonLongswordRankedFirst ==
    Ranked =>
        /\ search_response.status = 200
        /\ search_response.results # <<>>
        /\ search_response.results[1].item.name = DragonLongsword

\* The same for an index whose similarities to the query are all in [0, 1].
DragonLongswordFirstInUnitInterval ==
    (Ranked /\ \A id \in DOMAIN table : table[id].similarity >= 0) =>
        /\ search_response.status = 200
        /\ search_response.results # <<>>
        /\ search_response.results[1].item.name = DragonLongsword

\* ------------------------------------------------------- embedding claims
\* C14: a request whose query embedding fails is answered at once with
\* status 500 ("Failed to generate embedding") and no results: a step out of
\* the embedding either succeeded and goes on to the vector statement, or
\* ends the request, and a request ended so has run neither statement.
C14_EmbeddingFailureFailsSearch ==
    /\ [][(spc = "request" /\ spc' # "request") =>
            \/ spc' = "vector" /\ search_response' = NoResponse
            \/ /\ spc' = "done"
               /\ search_response'.status = 500
               /\ search_response'.detail = "Failed to generate embedding"]_vars
    /\ [](search_response.detail = "Failed to generate embedding" =>
            /\ spc = "done"
            /\ search_response.results = <<>>
            /\ search_response.total = 0
            /\ vector_rows = <<>> /\ keyword_rows = <<>> /\ all_rows = <<>>)
    /\ []((spc \in {"vector", "keyword"} \/ vector_rows # <<>> \/ keyword_rows # <<>>) =>
            search_response.detail # "Failed to generate embedding")

\* The embedding failed for a query that the keyword statement would have
\* answered from the table.
C14_Witness ==
    /\ spc = "done"
    /\ search_response.status = 500
    /\ search_response.detail = "Failed to generate embedding"
    /\ \E id \in DOMAIN table : IsIn(lower(search_query.query), lower(table[id].name))

\* The text without leading and trailing white space.
IsTrimOf(t, q) ==
    \E i \in 1..(Len(q) + 1), j \in 0..Len(q) :
       /\ t = SubSeq(q, i, j)
       /\ \A k \in DOMAIN q : (k < i \/ k > j) => q[k] \in {" ", "\t", "\n"}
       /\ t # <<>> => (t[1] \notin {" ", "\t", "\n"} /\ t[Len(t)] \notin {" ", "\t", "\n"})
TrimOf(q) ==
    CHOOSE t \in {SubSeq(q, i, j) : i \in 1..(Len(q) + 1), j \in 0..Len(q)} : IsTrimOf(t, q)

\* t starts with the lowercase text `prefix`, whatever the case of t.
StartsWithIgnoringCase(t, prefix) ==
    Len(t) >= Len(prefix) /\ \A k \in DOMAIN prefix : LowerChar(t[k]) = prefix[k]
AfterPrefix(t, prefix) == TrimOf(SubSeq(t, Len(prefix) + 1, Len(t)))

\* C19: the text embedded for a query is its canonical form: with t the
\* trimmed query, "Description: {text}" when t starts, in any case, with
\* "description:" followed by a non-empty text, "Item Name: {text}" when it
\* starts with "item name:" followed by a non-empty text, "Item Name: " when
\* either prefix has nothing after it, and "Item Name: {t}" otherwise.
C19_QueryFormattedCanonically ==
    spc # "request" =>
        LET t == TrimOf(search_query.query)
            description == <<"d", "e", "s", "c", "r", "i", "p", "t", "i", "o", "n", ":">>
            item_name == <<"i", "t", "e", "m", " ", "n", "a", "m", "e", ":">>
            description_form == <<"D", "e", "s", "c", "r", "i", "p", "t", "i", "o", "n", ":", " ">>
            item_name_form == <<"I", "t", "e", "m", " ", "N", "a", "m", "e", ":", " ">>
        IN IF StartsWithIgnoringCase(t, description)
           THEN IF AfterPrefix(t, description) # <<>>
                THEN formatted_query = description_form \o AfterPrefix(t, description)
                ELSE formatted_query = item_name_form
           ELSE IF StartsWithIgnoringCase(t, item_name)
           THEN IF AfterPrefix(t, item_name) # <<>>
                THEN formatted_query = item_name_form \o AfterPrefix(t, item_name)
                ELSE formatted_query = item_name_form
           ELSE formatted_query = item_name_form \o t

\* The query " DESCRIPTION:<tab> a sword " was formatted as "Description: a sword".
C19_Witness ==
    /\ spc # "request"
    /\ Len(search_query.query) > 14
    /\ search_query.query[1] = " "
    /\ search_query.query[2] = "D" /\ search_query.query[3] = "E"
    /\ search_query.query[14] = "\t"
    /\ search_query.query[Len(search_query.query)] = " "
    /\ formatted_query = <<"D", "e", "s", "c", "r", "i", "p", "t", "i", "o", "n", ":", " ",
                           "a", " ", "s", "w", "o", "r", "d">>

\* ---------------------------------------------------------- filter claims
\* The row passes the filters of a statement in the table as committed now.
PassesFilters(row) ==
    /\ table[row.item_id].embedded
    /\ search_query.members_only # None =>
          table[row.item_id].members = search_query.members_only[1]

\* C20: every row a statement returns, the vector statement as well as the
\* keyword statement, has a stored vector and, when members_only is given,
\* that membership flag, in the table the statement reads; every returned
\* item is such a row and carries that membership flag; with no commit of
\* another session during the request, a row without a stored vector is in
\* no result.
C20_ResultsPassFilters ==
    /\ [][(spc = "vector" /\ spc' = "keyword") =>
            \A k \in DOMAIN vector_rows' : PassesFilters(vector_rows'[k])]_vars
    /\ [][(spc = "keyword" /\ spc' = "done") =>
            /\ \A k \in DOMAIN keyword_rows' : PassesFilters(keyword_rows'[k])
            /\ \A k \in DOMAIN search_response'.results :
                  search_response'.results[k].item.item_id
                      \in Ids(vector_rows) \cup Ids(keyword_rows')]_vars
    /\ [](\A k \in DOMAIN search_response.results :
            /\ search_query.members_only # None =>
                  search_response.results[k].item.members = search_query.members_only[1]
            /\ table_commits = 0 =>
                  table[search_response.results[k].item.item_id].embedded)

\* A members-only search for "Dragon" returned items although the table holds
\* a members item named "Dragon dagger" without a vector and a free item.
C20_Witness ==
    /\ SearchDone
    /\ search_query.members_only = Some(TRUE)
    /\ search_query.query = Dragon
    /\ search_response.results # <<>>
    /\ ~table[2].embedded
    /\ ~table[3].members
    /\ keyword_rows # <<>>


\* C15: create_item for an identity that is already stored answers 400
\* "already exists" without calling the embedding provider and leaves the
\* stored items and prices as they were.
C15_DuplicateCreateRejected ==
    [][\A item \in ItemCreates, ok \in BOOLEAN :
          (CreateItemFor(item, ok) /\ item.id \in DOMAIN items)
              => /\ resp'.status = 400
                 /\ resp'.detail = "already exists"
                 /\ provider_calls' = 0
                 /\ items' = items
                 /\ prices' = prices
                 /\ req' = NoReq]_vars

C15_Witness ==
    /\ resp.status = 400
    /\ resp.detail = "already exists"
    /\ provider_calls = 0
    /\ DOMAIN items # {}

\* C16: a provider error in create_item stores nothing; a provider error in
\* create_items_batch fails the whole batch with 500 and stores none of its
\* entries, the non-duplicates included.
C16_EmbeddingFailureStoresNothing ==
    [][/\ \A item \in ItemCreates :
            (CreateItemFor(item, FALSE) /\ item.id \notin DOMAIN items)
                => /\ resp'.status = 500
                   /\ req' = NoReq
                   /\ items' = items
                   /\ prices' = prices
       /\ \A batch \in BatchItemCreates :
            (/\ CreateItemsBatchFor(batch, FALSE)
             /\ \E k \in DOMAIN batch : batch[k].id \notin DOMAIN items)
                => /\ resp'.status = 500
                   /\ resp'.detail = "Failed to generate embeddings"
                   /\ resp'.created = 0
                   /\ req' = NoReq
                   /\ items' = items
                   /\ prices' = prices]_vars

C16_Witness ==
    /\ resp.status = 500
    /\ resp.detail = "Failed to generate embeddings"
    /\ provider_calls = 1
    /\ req = NoReq
    /\ \E batch \in BatchItemCreates :
         \A k \in DOMAIN batch : batch[k].id \notin DOMAIN items


\* The identities a pending batch is about to insert.
PendingIds == {req.rows[k].item_id : k \in DOMAIN req.rows}

\* C17: create_items_batch answers every batch with created + failed equal
\* to the number of submitted entries, one error entry per failed entry, an
\* entry that repeats an identity of the batch counted as failed, and exactly
\* the new identities stored.  A commit that the database fails, or that
\* meets a row inserted meanwhile by another session, fails the request and
\* stores nothing.
C17_BatchCountsDuplicates ==
    [][/\ \A batch \in BatchItemCreates, ok \in BOOLEAN :
            (CreateItemsBatchFor(batch, ok) /\ req' = NoReq /\ resp'.status = 200)
                => /\ resp'.created = 0
                   /\ resp'.failed = Len(batch)
                   /\ Len(resp'.errors) = Len(batch)
                   /\ items' = items
       /\ (req.kind = "batch" /\ req' = NoReq)
            => \/ /\ resp'.status = 500
                  /\ items' = items
                  /\ \/ PendingIds \cap DOMAIN items # {}
                     \/ Flush(items, prices,
                              [objs |-> <<>>, new_items |-> req.rows,
                               new_prices |-> <<>>]).ok
               \/ /\ resp'.status = 200
                  /\ resp'.created = Cardinality(PendingIds)
                  /\ resp'.created + resp'.failed = Len(req.rows) + req.failed
                  /\ Len(resp'.errors) = resp'.failed
                  /\ DOMAIN items' = DOMAIN items \cup PendingIds]_vars


\* The timestamps of an item's PriceHistory rows.
TimestampsOf(id) ==
    {PricesOf(prices, id)[k].timestamp : k \in DOMAIN PricesOf(prices, id)}

\* The two not-found answers of a price lookup for item `id`.
NotFoundSignals(id) ==
    /\ id \notin DOMAIN items
         => resp'.status = 404 /\ resp'.detail = "Item not found"
    /\ (id \in DOMAIN items /\ PricesOf(prices, id) = <<>>)
         => /\ resp'.status = 404
            /\ resp'.detail = "No price data available for this item"

\* C18: both price lookups answer 404 for an unknown item and a distinct
\* 404 ("no price data") for an item without PriceHistory rows; with rows,
\* the current-price lookup returns a row of the latest timestamp.
C18_PriceLookupsSignalNotFound ==
    [][\A id \in ItemIds :
          /\ \A limit \in HistoryLimits :
                GetItemPriceHistoryFor(id, limit) => NotFoundSignals(id)
          /\ GetCurrentItemPriceFor(id)
                => /\ NotFoundSignals(id)
                   /\ (id \in DOMAIN items /\ PricesOf(prices, id) # <<>>)
                        => /\ resp'.status = 200
                           /\ resp'.body[1].item_id = id
                           /\ \A t \in TimestampsOf(id) :
                                 resp'.body[1].timestamp >= t]_vars

\* The part of C18 about get_current_item_price alone.
CurrentPriceSignalsNotFound ==
    [][\A id \in ItemIds :
          GetCurrentItemPriceFor(id)
              => /\ NotFoundSignals(id)
                 /\ (id \in DOMAIN items /\ PricesOf(prices, id) # <<>>)
                      => /\ resp'.status = 200
                         /\ resp'.body[1].item_id = id
                         /\ \A t \in TimestampsOf(id) :
                               resp'.body[1].timestamp >= t]_vars


\* The step that ends an update with its commit.
PersistCommits == pc = "PERSISTING" /\ pc' = "sleep" /\ outcome' = "completed"

\* C21: an Item stored without a vector, whose entry is in the catalog with a
\* price and with the stored name and description, has a vector at the end
\* of a committed update in which no provider call failed.
C21_ReembeddedAfterRecovery ==
    [][(PersistCommits /\ ~embed_failed)
          => \A k \in DOMAIN items_to_process :
                LET item_dict == items_to_process[k]
                IN (/\ item_dict.item_id \in DOMAIN items
                    /\ items[item_dict.item_id].embedding = None
                    /\ items[item_dict.item_id].name = item_dict.name
                    /\ items[item_dict.item_id].examine = item_dict.examine)
                      => items'[item_dict.item_id].embedding # None]_vars


\* The step that hands one batch of texts to the provider.
EmbedsBatch == pc = "EMBEDDING" /\ embed_calls' = embed_calls + 1

\* The entries of the batch the next provider call is made for.
CurrentBatch ==
    {item_indices_for_embedding[k] :
        k \in (batch_start + 1)..Min(batch_start + BatchSize,
                                      Len(item_indices_for_embedding))}

\* C22: the entries that need a vector are embedded in consecutive batches
\* of at most BatchSize; a provider call gives every entry of its batch the
\* vector of its own text or, when it fails, gives none of them a vector,
\* and leaves the entries of the other batches as they are; the update goes
\* on to the next batch and then to the second pass, and its commit stores an
\* Item and a PriceHistory row for every processed entry.
C22_FailedBatchAloneLosesEmbedding ==
    [][/\ EmbedsBatch
            => /\ CurrentBatch # {}
               /\ Cardinality(CurrentBatch) <= BatchSize
               /\ batch_start' = Min(batch_start + BatchSize,
                                      Len(item_indices_for_embedding))
               /\ \/ \A idx \in CurrentBatch :
                        items_to_process'[idx].embedding =
                            embed_text(create_searchable_text(items_to_process[idx]))
                  \/ \A idx \in CurrentBatch : items_to_process'[idx].embedding = None
               /\ \A idx \in CurrentBatch : items_to_process'[idx].has_embedding
               /\ \A idx \in DOMAIN items_to_process \ CurrentBatch :
                        items_to_process'[idx] = items_to_process[idx]
               /\ pc' = IF batch_start' = Len(item_indices_for_embedding)
                        THEN "PERSISTING" ELSE "EMBEDDING"
       /\ PersistCommits
            => /\ \A k \in DOMAIN items_to_process :
                    LET item_dict == items_to_process[k]
                    IN /\ item_dict.item_id \in DOMAIN items'
                       /\ item_dict.has_embedding
                            => items'[item_dict.item_id].embedding = item_dict.embedding
                       /\ prices'[Len(prices) + k] = PriceEntry(item_dict, cycles)
               /\ Len(prices') = Len(prices) + Len(items_to_process)]_vars

\* An update whose first batch failed and whose second batch succeeded has
\* committed both Items, one without and one with its vector.
C22_Witness ==
    /\ outcome = "completed"
    /\ embed_failed
    /\ embed_calls = 2
    /\ DOMAIN items = {1234, 1235}
    /\ \E a, b \in DOMAIN items :
         /\ items[a].embedding = None
         /\ items[b].embedding = embed_text(create_searchable_text(items[b]))
    /\ Len(prices) >= 2


\* C23: the first update starts without a wait, and every 60 s sleep that
\* ends after an update, however the update ended, is the only one since
\* that update and is followed at once by the start of the next update.
C23_NextCycleAfterOnePeriod ==
    [][/\ (pc = "start" /\ pc' # "start")
            => pc' = "FETCHING" /\ waited = 0 /\ cycles' = 1
       /\ waited' = waited + 1
            => waited = 0 /\ pc' = "FETCHING" /\ cycles' = cycles + 1]_vars

\* The part of C23 that holds: the first update starts without a wait, and
\* an update that completed, was skipped or was the initial one is followed
\* by the next update after one sleep.
NextCycleAfterOnePeriodUnlessRaised ==
    [][/\ (pc = "start" /\ pc' # "start")
            => pc' = "FETCHING" /\ waited = 0 /\ cycles' = 1
       /\ (waited' = waited + 1 /\ (outcome # "raised" \/ initial))
            => waited = 0 /\ pc' = "FETCHING" /\ cycles' = cycles + 1]_vars


\* The keyword match of a row, as the precedence names it: 3 for a substring
\* match (the query in the name or the name in the query), 2 for every query
\* token in the name, 1 for some of them, 0 for none.
TokenCount == Cardinality(QueryWords(lower(search_query.query)))

MatchLevel(row) ==
    IF QueryInName(row) \/ NameInQuery(row) THEN 3
    ELSE IF MatchingWords(row) = TokenCount THEN 2
    ELSE IF MatchingWords(row) > 0 THEN 1
    ELSE 0

\* C24: for a query with at least one token, of two merged candidates with
\* the same cosine similarity in [0, 1] the one with the higher keyword
\* match (substring > all tokens > some tokens > none) has the strictly
\* higher combined score.
C24_KeywordPrecedence ==
    (SearchDone /\ TokenCount > 0) =>
        \A a, b \in DOMAIN all_rows :
           ( /\ all_rows[a].similarity = all_rows[b].similarity
             /\ all_rows[a].similarity >= 0 /\ all_rows[a].similarity <= 100
             /\ MatchLevel(all_rows[a]) > MatchLevel(all_rows[b]) ) =>
               CombinedScore(all_rows[a], search_query.query)
                   > CombinedScore(all_rows[b], search_query.query)

\* The precedence the scores do keep: the query in the name > every token in
\* the name > some tokens in the name and no substring relation > no match.
QueryInNameLevel(row) ==
    IF QueryInName(row) THEN 3
    ELSE IF MatchingWords(row) = TokenCount THEN 2
    ELSE IF NameInQuery(row) THEN 4
    ELSE IF MatchingWords(row) > 0 THEN 1
    ELSE 0

PrecedenceByQueryInName ==
    (SearchDone /\ TokenCount > 0) =>
        \A a, b \in DOMAIN all_rows :
           ( /\ all_rows[a].similarity = all_rows[b].similarity
             /\ all_rows[a].similarity >= 0 /\ all_rows[a].similarity <= 100
             /\ QueryInNameLevel(all_rows[a]) # 4
             /\ QueryInNameLevel(all_rows[b]) # 4
             /\ QueryInNameLevel(all_rows[a]) > QueryInNameLevel(all_rows[b]) ) =>
               CombinedScore(all_rows[a], search_query.query)
                   > CombinedScore(all_rows[b], search_query.query)


\* The merged candidates behind the returned results, in the returned order.
ReturnedRows ==
    [k \in DOMAIN search_response.results |->
        RowWithId(all_rows, search_response.results[k].item.item_id)]

\* C25: ranking the candidates of an already ranked and truncated response
\* again, with the same query and limit, returns the same entries with the
\* same scores in the same order, and ranking the merged candidates again
\* returns the same response.
C25_RankingIdempotent ==
    SearchDone =>
        /\ Rank(ReturnedRows, search_query) = search_response
        /\ Rank(all_rows, search_query) = search_response

\* A truncated response whose two entries have the same score.
C25_Witness ==
    /\ SearchDone
    /\ Len(all_rows) > search_query.limit
    /\ Len(search_response.results) = 2
    /\ search_response.results[1].similarity = search_response.results[2].similarity
    /\ search_response.results[1].item.name # search_response.results[2].item.name


\* C26: get_embedding_service hands the same instance to every caller and
\* at most one EmbeddingService is ever constructed, also when the polling
\* thread and a request handler call it while the global is still None.
C26_OneProviderInstance ==
    /\ instances <= 1
    /\ Cardinality(handed_out) <= 1

\* What holds of get_embedding_service: with one thread calling it, one
\* instance at most is constructed and handed out; with both threads, every
\* caller is handed an instance that was constructed, never None.
OneInstanceForOneCaller ==
    /\ (\E t \in Callers : calls[t] = 0)
          => instances <= 1 /\ Cardinality(handed_out) <= 1
    /\ handed_out \subseteq 1..instances


\* C27: when the update commits, a stored Item that had a vector, whose
\* entry (the only one of its identity) has a changed name or description
\* and was in a batch the provider failed, has the entry's text fields and
\* the vector it had before.
C27_FailedReembeddingKeepsVector ==
    [][PersistCommits
          => \A k \in DOMAIN items_to_process :
                LET item_dict == items_to_process[k]
                    id == item_dict.item_id
                IN (/\ id \in DOMAIN items
                    /\ items[id].embedding # None
                    /\ \A j \in DOMAIN items_to_process :
                          items_to_process[j].item_id = id => j = k
                    /\ \/ items[id].name # item_dict.name
                       \/ items[id].examine # item_dict.examine
                    /\ item_dict.has_embedding
                    /\ item_dict.embedding = None)
                      => /\ items'[id].name = item_dict.name
                         /\ items'[id].examine = item_dict.examine
                         /\ items'[id].embedding = items[id].embedding]_vars

\* What the update does instead: the text fields are updated and the vector
\* is overwritten with NULL.
FailedReembeddingClearsVector ==
    [][PersistCommits
          => \A k \in DOMAIN items_to_process :
                LET item_dict == items_to_process[k]
                    id == item_dict.item_id
                IN (/\ id \in DOMAIN items
                    /\ \A j \in DOMAIN items_to_process :
                          items_to_process[j].item_id = id => j = k
                    /\ item_dict.has_embedding
                    /\ item_dict.embedding = None)
                      => /\ items'[id].name = item_dict.name
                         /\ items'[id].examine = item_dict.examine
                         /\ items'[id].embedding = None]_vars


\* The vector of the indexable text built from a stored row's fields.
CanonicalEmbedding(row) == embed_text(create_searchable_text(row))

\* C28: after an update that commits and in which no provider call failed,
\* every stored Item with a vector holds the vector of the indexable text
\* built from its stored name, description and membership flag.
C28_EmbeddingMatchesStoredFields ==
    [][(PersistCommits /\ ~embed_failed)
          => \A id \in DOMAIN items' :
                items'[id].embedding # None
                    => items'[id].embedding = CanonicalEmbedding(items'[id])]_vars

\* What holds: an entry (the only one of its identity) whose name or
\* description differs from the stored Item's, or that has no stored Item,
\* ends such an update with the vector of its own indexable text.
ChangedTextIsReembedded ==
    [][(PersistCommits /\ ~embed_failed)
          => \A k \in DOMAIN items_to_process :
                LET item_dict == items_to_process[k]
                    id == item_dict.item_id
                IN (/\ \A j \in DOMAIN items_to_process :
                          items_to_process[j].item_id = id => j = k
                    /\ \/ id \notin DOMAIN loaded
                       \/ loaded[id].name # item_dict.name
                       \/ loaded[id].examine # item_dict.examine)
                      => items'[id].embedding = CanonicalEmbedding(items'[id])]_vars


\* The step that ends the second pass of an update, by commit or by raise.
PersistEnds == pc = "PERSISTING" /\ pc' # "PERSISTING"

\* The session the second pass of the running update builds.
UpdateSession ==
    SecondPass(items_to_process, cycles, 1,
               [objs |-> loaded, new_items |-> <<>>, new_prices |-> <<>>])

RepeatedIdentity ==
    \E j, k \in DOMAIN items_to_process :
        j # k /\ items_to_process[j].item_id = items_to_process[k].item_id

\* An identity the update found absent has been inserted by another session.
InsertedMeanwhile ==
    \E k \in DOMAIN items_to_process :
        /\ ~items_to_process[k].existing_item
        /\ items_to_process[k].item_id \in DOMAIN items

\* C29: an update whose catalog lists a priced identity more than once
\* commits, with one Item for every processed identity and a PriceHistory
\* row for every processed entry; it fails only when the database fails the
\* commit or another session has inserted one of its identities meanwhile.
C29_RepeatedIdentityCommits ==
    [][(PersistEnds /\ RepeatedIdentity)
          => \/ /\ outcome' = "raised"
                /\ Flush(items, prices, UpdateSession).ok \/ InsertedMeanwhile
             \/ /\ outcome' = "completed"
                /\ \A k \in DOMAIN items_to_process :
                      items_to_process[k].item_id \in DOMAIN items'
                /\ Len(prices') = Len(prices) + Len(items_to_process)]_vars

\* What holds: the update commits as claimed when the repeated identity is
\* already stored.
RepeatedStoredIdentityCommits ==
    [][(/\ PersistEnds
        /\ RepeatedIdentity
        /\ \A k \in DOMAIN items_to_process : items_to_process[k].existing_item)
          => \/ /\ outcome' = "raised"
                /\ Flush(items, prices, UpdateSession).ok
             \/ /\ outcome' = "completed"
                /\ \A k \in DOMAIN items_to_process :
                      items_to_process[k].item_id \in DOMAIN items'
                /\ Len(prices') = Len(prices) + Len(items_to_process)]_vars


\* A creation request commits for an identity that is stored by now.
RequestLosesRace ==
    req.kind # "none" /\ req' = NoReq /\ PendingIds \cap DOMAIN items # {}

\* The steps of a race between an update and a creation request: the one
\* that commits second stores nothing and leaves the stored Item as it is;
\* an update that ends has stored all of its Items and PriceHistory rows or
\* none of them; an update that lost the race has rolled back and the
\* thread goes on to its next sleep.
RaceStepsKeepOneItemAndWholeCycles ==
    [][/\ (PersistEnds /\ InsertedMeanwhile)
            => /\ outcome' = "raised"
               /\ items' = items
               /\ prices' = prices
               /\ pc' \in {"sleep", "error_sleep"}
       /\ PersistEnds
            => \/ outcome' = "raised" /\ items' = items /\ prices' = prices
               \/ /\ outcome' = "completed"
                  /\ prices' = prices \o UpdateSession.new_prices
                  /\ \A k \in DOMAIN items_to_process :
                        items_to_process[k].item_id \in DOMAIN items'
                  /\ \A k \in DOMAIN UpdateSession.new_items :
                        items'[UpdateSession.new_items[k].item_id]
                            = UpdateSession.new_items[k].row
                  /\ \A id \in DOMAIN loaded : items'[id] = UpdateSession.objs[id]
       /\ RequestLosesRace
            => /\ resp'.status = 500
               /\ items' = items
               /\ prices' = prices]_vars

\* The polling thread, kept running, starts another update after one that
\* raised, as long as the bound on updates allows.
RaisedUpdateIsFollowedByAnother ==
    (outcome = "raised" /\ pc # "PERSISTING" /\ cycles < MaxCycles) ~> (pc = "FETCHING")

\* C30: under every interleaving of an update with creation requests for
\* the identities it processes, the store keeps one Item for an identity
\* (whoever commits second stores nothing), the update's writes are all
\* there or none is, and an update that lost the race has rolled back and
\* is followed by a later update.
C30_RaceKeepsOneItemAndWholeCycles ==
    RaceStepsKeepOneItemAndWholeCycles /\ RaisedUpdateIsFollowedByAnother

\* A creation request has committed an identity between the first pass of
\* the running update, which found it absent, and the update's commit.
C30_Witness ==
    /\ pc = "PERSISTING"
    /\ InsertedMeanwhile
    /\ resp.status = 200
    /\ req = NoReq

====
